---- MODULE Spec2Model ----
(***************************************************************************)
(* A model of three components of sec-parser:                              *)
(*   - TableParsingStep._transform_element  (processing_steps)             *)
(*   - get_approx_table_metrics             (utils/bs4_)                   *)
(*   - render                               (semantic_tree/render_)        *)
(* Each component has its own specification (SpecStep, SpecMetrics,        *)
(* SpecRenderTree, SpecRenderText) over the shared variables below.        *)
(***************************************************************************)
EXTENDS Integers, Sequences, FiniteSets, TLC

VARIABLES
    element,    \* the semantic element handed to TableParsingStep
    result,     \* what _transform_element returned for it (None: not yet run)
    passes,     \* how many times the step has been applied to the element
    bs4_tag,    \* the markup node handed to get_approx_table_metrics
    metrics,    \* its outcome: a metrics value or a raised error (None: not yet run)
    tree,       \* the forest of TreeNodes handed to render
    args,       \* render's keyword arguments
    rendered    \* render's output, a sequence of lines (None: not yet run)

vars == <<element, result, passes, bs4_tag, metrics, tree, args, rendered>>

\* Python's None, for the variables that hold an object
None == [none |-> TRUE]

Max(a, b) == IF a >= b THEN a ELSE b
Min(a, b) == IF a <= b THEN a ELSE b

(***************************************************************************)
(* Markup trees.  A tree of n nodes is a record [n, parent, tag]: node 1   *)
(* is the root, parent[i] < i, and the children of a node are its child    *)
(* ids in increasing order.                                                *)
(***************************************************************************)
MaxDomNodes == 4
MaxPasses == 2

TagNames == {"div", "table", "p"}

Doms(maxNodes) ==
    UNION { { [n |-> n, parent |-> p, tag |-> t] :
                p \in { q \in [2..n -> 1..n] : \A i \in 2..n : q[i] < i },
                t \in [1..n -> TagNames] } : n \in 1..maxNodes }

\* bs4 Tag.contents of node i, as a set of node ids
DomChildren(d, i) == { k \in 1..d.n : k > 1 /\ d.parent[k] = i }

\* HtmlTag.is_unary_tree: no branching from node i down to its leaf
RECURSIVE is_unary_tree_at(_, _)
is_unary_tree_at(d, i) ==
    LET kids == DomChildren(d, i)
    IN  /\ Cardinality(kids) <= 1
        /\ \A k \in kids : is_unary_tree_at(d, k)

is_unary_tree(d) == is_unary_tree_at(d, 1)

\* HtmlTag.contains_tag(name, include_self)
RECURSIVE contains_tag_at(_, _, _, _)
contains_tag_at(d, i, name, include_self) ==
    \/ include_self /\ d.tag[i] = name
    \/ \E k \in DomChildren(d, i) : contains_tag_at(d, k, name, TRUE)

contains_tag(d, name, include_self) == contains_tag_at(d, 1, name, include_self)

(***************************************************************************)
(* Semantic elements: [oid, cls, html_tag].  oid is the object's identity: *)
(* the flattening step creates object 0, every conversion a new object.    *)
(***************************************************************************)
InputClasses == {"UndeterminedElement", "TextElement", "TitleElement", "IrrelevantElement"}

\* TableElement.convert_from: a new TableElement sharing the source's html_tag
TableElement_convert_from(e) ==
    [oid |-> e.oid + 1, cls |-> "TableElement", html_tag |-> e.html_tag]

\* a slip: "or" for "and"
Mutant_transform_element_or(e) ==
    IF is_unary_tree(e.html_tag) \/ contains_tag(e.html_tag, "table", TRUE)
    THEN TableElement_convert_from(e)
    ELSE e

\* TableParsingStep._transform_element
_transform_element(e) ==
    LET is_unary == is_unary_tree(e.html_tag)
        contains_table == contains_tag(e.html_tag, "table", TRUE)
    IN  IF is_unary /\ contains_table
        THEN TableElement_convert_from(e)
        ELSE e

StepInit ==
    /\ element \in { [oid |-> 0, cls |-> c, html_tag |-> d] : c \in InputClasses, d \in Doms(MaxDomNodes) }
    /\ result = None
    /\ passes = 0

\* the step processes the element
TransformElement ==
    /\ result = None
    /\ result' = _transform_element(element)
    /\ passes' = passes + 1
    /\ UNCHANGED element

\* the pipeline hands the step's output to a later application of the step
Refeed ==
    /\ result # None
    /\ passes < MaxPasses
    /\ element' = result
    /\ result' = None
    /\ UNCHANGED passes

RestIdle == bs4_tag = None /\ metrics = None /\ tree = None /\ args = None /\ rendered = None

InitStep == StepInit /\ RestIdle

NextStep ==
    \/ TransformElement /\ UNCHANGED <<bs4_tag, metrics, tree, args, rendered>>
    \/ Refeed /\ UNCHANGED <<bs4_tag, metrics, tree, args, rendered>>

SpecStep == InitStep /\ [][NextStep]_vars

(***************************************************************************)
(* C1.  Table detection: the result is a Table variant wrapping the same   *)
(* node wrapper iff no node of the element's subtree has more than one     *)
(* child and some node of it (the root included) has tag "table";          *)
(* otherwise the very same element comes back.  The chain                  *)
(* outer -> inner -> table yields a Table, outer -> [table, p] no change.  *)
(***************************************************************************)
NoBranching(d) == \A j \in 1..d.n : Cardinality({ k \in 2..d.n : d.parent[k] = j }) <= 1
HasTableTag(d) == \E j \in 1..d.n : d.tag[j] = "table"

ChainDom == [n |-> 3, parent |-> [i \in 2..3 |-> i - 1],
             tag |-> [i \in 1..3 |-> IF i = 3 THEN "table" ELSE "div"]]
SiblingDom == [n |-> 3, parent |-> [i \in 2..3 |-> 1],
               tag |-> [i \in 1..3 |-> CASE i = 1 -> "div" [] i = 2 -> "table" [] OTHER -> "p"]]

C1_TableDetection ==
    result # None =>
        LET d == element.html_tag
            cond == NoBranching(d) /\ HasTableTag(d)
            isNewTable == /\ result.cls = "TableElement"
                          /\ result.html_tag = d
                          /\ result.oid # element.oid
        IN  /\ isNewTable <=> cond
            /\ (result.cls = "TableElement" /\ result.html_tag = d) <=> cond
            /\ ~cond => result = element
            /\ d = ChainDom => result.cls = "TableElement"
            /\ d = SiblingDom => result = element

C1_Witness ==
    /\ result # None
    /\ element.html_tag = ChainDom
    /\ element.cls = "UndeterminedElement"
    /\ result.cls = "TableElement"

(***************************************************************************)
(* Text.  A string is a sequence of character codes (ASCII).               *)
(***************************************************************************)
Whitespace == {9, 10, 32}
Digits == 48..57

\* str.strip(): drop leading and trailing whitespace
RECURSIVE LStrip(_)
LStrip(s) == IF s # <<>> /\ Head(s) \in Whitespace THEN LStrip(Tail(s)) ELSE s

RECURSIVE RStrip(_)
RStrip(s) ==
    IF s # <<>> /\ s[Len(s)] \in Whitespace THEN RStrip(SubSeq(s, 1, Len(s) - 1)) ELSE s

Strip(s) == RStrip(LStrip(s))

\* re.search(r"\d", s) is not None
HasDigit(s) == \E i \in 1..Len(s) : s[i] \in Digits

SeqsUpTo(S, n) == UNION { [1..k -> S] : k \in 0..n }

(***************************************************************************)
(* Table metrics.  The node handed to get_approx_table_metrics holds a     *)
(* sequence of tables; a table is a sequence of rows (tr), a row a         *)
(* sequence of cells, a cell [name, text] with name "td" or "th".          *)
(***************************************************************************)
MaxTables == 2
MaxRows == 2
MaxCells == 2

CellTexts == { <<32>>, <<120>>, <<32, 52, 50>> }     \* " ", "x", " 42"

Cells == { [name |-> "td", text |-> t] : t \in CellTexts }
            \cup { [name |-> "th", text |-> <<104, 49>>] }    \* <th>h1</th>

Rows(maxCells) == SeqsUpTo(Cells, maxCells)
Tables(maxRows, maxCells) == SeqsUpTo(Rows(maxCells), maxRows)
SmallTables == Tables(1, 1)

\* the nodes: no table, one table of any shape, several small tables
Bs4Tags(maxTables, maxRows, maxCells) ==
    { [tables |-> <<>>] }
        \cup { [tables |-> <<t>>] : t \in Tables(maxRows, maxCells) }
        \cup { [tables |-> ts] : ts \in UNION { [1..k -> SmallTables] : k \in 2..maxTables } }

Raised(type) == [kind |-> "error", type |-> type]
Returned(v) == [kind |-> "ok", value |-> v]

\* get_single_table: the one table under the node, or a typed error
get_single_table(tag) ==
    CASE Len(tag.tables) = 0 -> Raised("NoTableFound")
      [] Len(tag.tables) > 1 -> Raised("AmbiguousTable")
      [] OTHER -> Returned(tag.tables[1])

\* row.find("td"): the row's first td cell, or None
find_td(row) ==
    LET tds == { i \in 1..Len(row) : row[i].name = "td" }
    IN  IF tds = {} THEN None ELSE row[CHOOSE i \in tds : \A j \in tds : i <= j]

\* table.find_all("td"), in document order
RECURSIVE find_all_td(_)
find_all_td(table) ==
    IF table = <<>> THEN <<>>
    ELSE SelectSeq(Head(table), LAMBDA c : c.name = "td") \o find_all_td(Tail(table))

RECURSIVE SumSeq(_)
SumSeq(s) == IF s = <<>> THEN 0 ELSE Head(s) + SumSeq(Tail(s))

\* a slip: with several tables, the first one is taken
Mutant_metrics_first_table(tag) ==
    IF Len(tag.tables) = 0 THEN Raised("NoTableFound")
    ELSE LET table == tag.tables[1]
         IN  IF \E r \in 1..Len(table) : find_td(table[r]) = None
             THEN Raised("AttributeError")
             ELSE Returned([rows |-> Cardinality({ r \in 1..Len(table) :
                                         Strip(find_td(table[r]).text) # <<>> }),
                            numbers |-> 0])

\* get_approx_table_metrics
get_approx_table_metrics(tag) ==
    LET single == get_single_table(tag)
    IN  IF single.kind = "error" THEN single
        ELSE
            LET table == single.value
                \* rows = sum(1 for row in table.find_all("tr")
                \*            if row.find("td").text.strip())
                noTd == { r \in 1..Len(table) : find_td(table[r]) = None }
                rows == Cardinality({ r \in 1..Len(table) :
                                        Strip(find_td(table[r]).text) # <<>> })
                \* numbers = sum(bool(re.search(r"\d", cell.text))
                \*               for cell in table.find_all("td") if cell.text.strip())
                counted == SelectSeq(find_all_td(table), LAMBDA c : Strip(c.text) # <<>>)
                numbers == SumSeq([i \in 1..Len(counted) |->
                                      IF HasDigit(counted[i].text) THEN 1 ELSE 0])
            IN  IF noTd # {}
                THEN Raised("AttributeError")   \* None has no attribute 'text'
                ELSE Returned([rows |-> rows, numbers |-> numbers])

MetricsInit ==
    /\ bs4_tag \in Bs4Tags(MaxTables, MaxRows, MaxCells)
    /\ metrics = None

GetApproxTableMetrics ==
    /\ metrics = None
    /\ metrics' = get_approx_table_metrics(bs4_tag)
    /\ UNCHANGED bs4_tag

InitMetrics ==
    /\ MetricsInit
    /\ element = None /\ result = None /\ passes = 0
    /\ tree = None /\ args = None /\ rendered = None

NextMetrics ==
    GetApproxTableMetrics /\ UNCHANGED <<element, result, passes, tree, args, rendered>>

SpecMetrics == InitMetrics /\ [][NextMetrics]_vars

\* what the specification says of a table, stated on the table itself
FirstDataCellNonBlank(row) ==
    \E i \in 1..Len(row) :
        /\ row[i].name = "td"
        /\ \A j \in 1..(i - 1) : row[j].name # "td"
        /\ \E k \in 1..Len(row[i].text) : row[i].text[k] \notin Whitespace

QualifyingCells(table) ==
    { <<r, c>> \in (1..MaxRows + 1) \X (1..MaxCells + 1) :
        /\ r <= Len(table) /\ c <= Len(table[r])
        /\ table[r][c].name = "td"
        /\ \E k \in 1..Len(table[r][c].text) : table[r][c].text[k] \notin Whitespace
        /\ \E k \in 1..Len(table[r][c].text) : table[r][c].text[k] \in Digits }

OneTable == Len(bs4_tag.tables) = 1

(***************************************************************************)
(* C4.  On a node with exactly one table, get_approx_table_metrics returns *)
(* rows equal to the number of rows whose first data cell has non-blank    *)
(* text after trimming.                                                    *)
(***************************************************************************)
C4_RowsClaim ==
    (metrics # None /\ OneTable) =>
        /\ metrics.kind = "ok"
        /\ metrics.value.rows =
             Cardinality({ r \in 1..Len(bs4_tag.tables[1]) :
                             FirstDataCellNonBlank(bs4_tag.tables[1][r]) })

(***************************************************************************)
(* C5.  On a node with exactly one table, get_approx_table_metrics returns *)
(* numbers equal to the number of data cells whose trimmed text is         *)
(* non-blank and holds a decimal digit, each such cell counting once.      *)
(***************************************************************************)
C5_NumbersClaim ==
    (metrics # None /\ OneTable) =>
        /\ metrics.kind = "ok"
        /\ metrics.value.numbers = Cardinality(QualifyingCells(bs4_tag.tables[1]))

(***************************************************************************)
(* C6.  On a node with exactly one table, whatever the table's shape, a    *)
(* metrics value is returned; the only error the operation raises is the   *)
(* typed one-table precondition error.                                     *)
(***************************************************************************)
C6_NeverGenericClaim ==
    metrics # None =>
        /\ OneTable => metrics.kind = "ok"
        /\ metrics.kind = "error" => metrics.type \in {"NoTableFound", "AmbiguousTable"}

(***************************************************************************)
(* C7.  The single table is resolved first: with no table the operation    *)
(* fails with "no table found", with several with "ambiguous table", the   *)
(* two differ, and in neither case is a metrics value returned.            *)
(***************************************************************************)
C7_Precondition ==
    metrics # None =>
        /\ Len(bs4_tag.tables) = 0 => metrics = Raised("NoTableFound")
        /\ Len(bs4_tag.tables) > 1 => metrics = Raised("AmbiguousTable")
        /\ ~OneTable => metrics.kind # "ok"
        /\ Raised("NoTableFound") # Raised("AmbiguousTable")

C7_Witness ==
    /\ metrics = Raised("AmbiguousTable")
    /\ Len(bs4_tag.tables) = 2
    /\ \A r \in 1..Len(bs4_tag.tables[1]) : find_td(bs4_tag.tables[1][r]) # None

(***************************************************************************)
(* Rendering.  A forest of n TreeNodes is [n, parent, cls, level, summary]:*)
(* parent[i] < i, parent[i] = 0 for a root, children in increasing id      *)
(* order; cls[i], level[i] and summary[i] are the class, the level (0: the *)
(* element has none) and get_summary() of node i's semantic element.       *)
(* An optional argument is a set: {} for None, {v} for the value v.        *)
(* A line is [lead, class_name, contents]: the pieces the code             *)
(* concatenates, in order (": " joins class_name and a non-empty contents).*)
(* The box-drawing pieces are written in ASCII.                            *)
(***************************************************************************)
DEFAULT_CHAR_DISPLAY_LIMIT == 50

Tee == "|-- "       \* U+251C U+2500 U+2500 and a space
Corner == "+-- "    \* U+2514 U+2500 U+2500 and a space
Bar == "|   "       \* U+2502 and three spaces
Blank == "    "
Ellipsis == <<46, 46, 46>>

The(opt) == CHOOSE v \in opt : TRUE

\* node.children
Children(t, i) ==
    LET kids == { k \in 1..t.n : t.parent[k] = i }
    IN  IF kids = {} THEN <<>>
        ELSE LET f[S \in SUBSET kids] ==
                    IF S = {} THEN <<>>
                    ELSE LET m == CHOOSE x \in S : \A y \in S : x <= y
                         IN  <<m>> \o f[S \ {m}]
             IN  f[kids]

\* pretty if pretty is not None else True
effective_pretty(pretty) == IF pretty = {} THEN TRUE ELSE The(pretty)

\* ignored_types or (IrrelevantElement,)
effective_ignored_types(ignored_types) ==
    IF ignored_types = {} \/ The(ignored_types) = {}
    THEN {"IrrelevantElement"}
    ELSE The(ignored_types)

\* char_display_limit if char_display_limit and char_display_limit > 0 else DEFAULT
effective_char_display_limit(char_display_limit) ==
    IF char_display_limit # {} /\ The(char_display_limit) # 0 /\ The(char_display_limit) > 0
    THEN The(char_display_limit)
    ELSE DEFAULT_CHAR_DISPLAY_LIMIT

\* isinstance(element, ignored_types)
is_ignored(cls, ignored_types) == cls \in ignored_types

\* Python's s[:k] and s[k:]
SliceTo(s, k) ==
    SubSeq(s, 1, IF k < 0 THEN Max(Len(s) + k, 0) ELSE Min(k, Len(s)))
SliceFrom(s, k) ==
    SubSeq(s, (IF k < 0 THEN Max(Len(s) + k, 0) ELSE Min(k, Len(s))) + 1, Len(s))

\* a slip: the ellipsis is not subtracted
Mutant_half_limit_no_ellipsis(char_display_limit) == char_display_limit \div 2

\* (char_display_limit - 3) // 2
half_limit(char_display_limit) == (char_display_limit - 3) \div 2

\* the summary as displayed: stripped, and cut when longer than the limit
display_contents(summary, char_display_limit) ==
    LET contents == Strip(summary)
    IN  IF Len(contents) > char_display_limit
        THEN LET h == half_limit(char_display_limit)
             IN  SliceTo(contents, h) \o Ellipsis \o SliceFrom(contents, -h)
        ELSE contents

\* the class name with its level marker, coloured when pretty
display_class_name(cls, lvl, pretty) ==
    LET marker == IF lvl # 0
                  THEN IF pretty
                       THEN <<"ESC[1;92m", "[L" \o ToString(lvl) \o "]", "ESC[0m">>
                       ELSE <<"[L" \o ToString(lvl) \o "]">>
                  ELSE <<>>
        name == <<cls>> \o marker
    IN  IF pretty THEN <<"ESC[1;34m">> \o name \o <<"ESC[0m">> ELSE name

\* render: the lines for _nodes and, under each, for its children
RECURSIVE render(_, _, _, _, _, _, _)

\* a slip: the children of a skipped node are rendered in its place
Mutant_skipped_node_lines_reparent(t, pretty, ignored_types, char_display_limit, node, _prefix, _is_root) ==
    render(t, {pretty}, {ignored_types}, {char_display_limit},
           Children(t, node), _prefix, _is_root)

\* "continue": a skipped node contributes no line and is not descended into
skipped_node_lines(t, pretty, ignored_types, char_display_limit, node, _prefix, _is_root) ==
    <<>>

render(t, pretty_arg, ignored_types_arg, char_display_limit_arg, _nodes, _prefix, _is_root) ==
    LET pretty == effective_pretty(pretty_arg)
        ignored_types == effective_ignored_types(ignored_types_arg)
        char_display_limit == effective_char_display_limit(char_display_limit_arg)
        tree_strings[i \in 1..(Len(_nodes) + 1)] ==
            IF i > Len(_nodes) THEN <<>>
            ELSE
                LET node == _nodes[i]
                IN  IF is_ignored(t.cls[node], ignored_types)
                    THEN skipped_node_lines(t, pretty, ignored_types, char_display_limit,
                                            node, _prefix, _is_root)
                           \o tree_strings[i + 1]
                    ELSE
                        LET is_last == (i = Len(_nodes))
                            indent == IF ~is_last THEN Tee ELSE Corner
                            new_prefix == IF ~is_last THEN Bar ELSE Blank
                            line == [lead |-> IF ~_is_root THEN _prefix \o <<indent>> ELSE <<>>,
                                     class_name |->
                                         display_class_name(t.cls[node], t.level[node], pretty),
                                     contents |->
                                         display_contents(t.summary[node], char_display_limit)]
                        IN  <<line>>
                              \o render(t, {pretty}, {ignored_types}, {char_display_limit},
                                        Children(t, node),
                                        _prefix \o (IF _is_root THEN _prefix ELSE <<new_prefix>>),
                                        FALSE)
                              \o tree_strings[i + 1]
    IN  tree_strings[1]

Classes == {"TextElement", "TitleElement", "IrrelevantElement"}
LevelOf(cls) == IF cls = "TitleElement" THEN 1 ELSE 0

Render ==
    /\ rendered = None
    /\ rendered' = [lines |-> render(tree, args.pretty, args.ignored_types,
                                     args.char_display_limit, Children(tree, 0), <<>>, TRUE)]
    /\ UNCHANGED <<tree, args>>

StepMetricsIdle ==
    element = None /\ result = None /\ passes = 0 /\ bs4_tag = None /\ metrics = None

NextRender == Render /\ UNCHANGED <<element, result, passes, bs4_tag, metrics>>

(***************************************************************************)
(* SpecRenderTree: forests of up to MaxTreeNodes nodes; node i's summary   *)
(* is the single letter chr(64 + i), so a line names its node.             *)
(***************************************************************************)
MaxTreeNodes == 4

Forests(maxNodes) ==
    UNION { { [n |-> n, parent |-> p, cls |-> c,
               level |-> [i \in 1..n |-> LevelOf(c[i])],
               summary |-> [i \in 1..n |-> <<64 + i>>]] :
                p \in { q \in [1..n -> 0..n] : \A i \in 1..n : q[i] < i },
                c \in [1..n -> Classes] } : n \in 1..maxNodes }

IgnoredTypesArgs ==
    { {} } \cup { {s} : s \in SUBSET {"IrrelevantElement", "TextElement"} }

InitRenderTree ==
    /\ tree \in Forests(MaxTreeNodes)
    /\ args \in { [pretty |-> p, ignored_types |-> g, char_display_limit |-> {}] :
                    p \in { {}, {FALSE} }, g \in IgnoredTypesArgs }
    /\ rendered = None
    /\ StepMetricsIdle

SpecRenderTree == InitRenderTree /\ [][NextRender]_vars

(***************************************************************************)
(* SpecRenderText: one node whose summary is up to MaxSummaryLen distinct  *)
(* characters, with or without a blank before and after, rendered under    *)
(* every limit up to MaxLimit (and None, 0 and a negative one).            *)
(***************************************************************************)
MaxSummaryLen == 80
MaxLimit == 51

Body(n) == [i \in 1..n |-> 32 + i]

Summaries(maxLen) ==
    { a \o Body(n) \o b : a \in { <<>>, <<32>> }, b \in { <<>>, <<32>> }, n \in 0..maxLen }

InitRenderText ==
    /\ tree \in { [n |-> 1, parent |-> <<0>>, cls |-> <<"TextElement">>, level |-> <<0>>,
                   summary |-> <<s>>] : s \in Summaries(MaxSummaryLen) }
    /\ args \in { [pretty |-> {}, ignored_types |-> {}, char_display_limit |-> l] :
                    l \in { {} } \cup { {k} : k \in (-1)..MaxLimit } }
    /\ rendered = None
    /\ StepMetricsIdle

SpecRenderText == InitRenderText /\ [][NextRender]_vars

(***************************************************************************)
(* Reading render's output back (SpecRenderTree): the line of node i is    *)
(* the one whose contents is i's letter.                                   *)
(***************************************************************************)
Lines == rendered.lines

LineIndexes(i) == { k \in 1..Len(Lines) : Lines[k].contents = <<64 + i>> }
HasLine(i) == LineIndexes(i) # {}
LineOf(i) == Lines[CHOOSE k \in LineIndexes(i) : TRUE]

\* the path of node ids from i's root down to i
RECURSIVE Path(_)
Path(i) == IF tree.parent[i] = 0 THEN <<i>> ELSE Path(tree.parent[i]) \o <<i>>

OnPath(i) == { Path(i)[k] : k \in 1..Len(Path(i)) }

\* a comes before b in depth-first pre-order document order
PreOrderBefore(a, b) ==
    LET pa == Path(a)
        pb == Path(b)
    IN  \/ Len(pa) < Len(pb) /\ SubSeq(pb, 1, Len(pa)) = pa
        \/ \E k \in 1..Min(Len(pa), Len(pb)) :
              /\ SubSeq(pa, 1, k - 1) = SubSeq(pb, 1, k - 1)
              /\ pa[k] < pb[k]

\* the variants render suppresses in this call
SuppressedVariants ==
    IF args.ignored_types = {} \/ args.ignored_types = { {} }
    THEN {"IrrelevantElement"}
    ELSE The(args.ignored_types)

\* the variants the caller asked to suppress, the default standing in for None only
SuppliedVariants ==
    IF args.ignored_types = {} THEN {"IrrelevantElement"} ELSE The(args.ignored_types)

(***************************************************************************)
(* C8.  render omits a node's line exactly when its variant is in the set  *)
(* the caller supplied; the default {Irrelevant} stands in only when no    *)
(* set is supplied, so with an explicitly empty set every node has a line. *)
(* (Stated for the nodes whose parent has a line, or that are roots.)      *)
(***************************************************************************)
C8_SuppliedSetClaim ==
    rendered # None =>
        /\ \A i \in 1..tree.n :
              (tree.parent[i] = 0 \/ HasLine(tree.parent[i])) =>
                  (~HasLine(i) <=> tree.cls[i] \in SuppliedVariants)
        /\ args.ignored_types = { {} } => \A i \in 1..tree.n : HasLine(i)

(***************************************************************************)
(* C9.  A node of a suppressed variant gets no line and neither does any   *)
(* of its descendants; every node with no suppressed node among itself and *)
(* its ancestors gets exactly one line; the lines come in depth-first      *)
(* pre-order document order.                                               *)
(***************************************************************************)
VisibleNodes ==
    { i \in 1..tree.n : \A j \in OnPath(i) : tree.cls[j] \notin SuppressedVariants }

C9_SuppressedSubtree ==
    rendered # None =>
        /\ \A i \in 1..tree.n :
              Cardinality(LineIndexes(i)) = (IF i \in VisibleNodes THEN 1 ELSE 0)
        /\ Len(Lines) = Cardinality(VisibleNodes)
        /\ \A k \in 1..Len(Lines) : \A l \in 1..Len(Lines) :
              k < l => PreOrderBefore(Lines[k].contents[1] - 64, Lines[l].contents[1] - 64)

\* a suppressed node with a visible-variant child, between two visible siblings
C9_Witness ==
    /\ rendered # None
    /\ \E i \in 1..tree.n : \E c \in 1..tree.n : \E a \in 1..tree.n : \E b \in 1..tree.n :
          /\ tree.cls[i] \in SuppressedVariants
          /\ tree.parent[c] = i /\ tree.cls[c] \notin SuppressedVariants
          /\ tree.parent[i] = a /\ HasLine(a)
          /\ tree.parent[b] = a /\ b > i /\ HasLine(b)
          /\ ~HasLine(i) /\ ~HasLine(c)

(***************************************************************************)
(* C10.  Among the lines emitted for the children of one node, exactly the *)
(* last emitted one carries the corner connector and every earlier one the *)
(* tee, also when the last child in the list is suppressed; the            *)
(* continuation prefix under a child is blank when the child got the       *)
(* corner and a bar otherwise.                                             *)
(***************************************************************************)
EmittedChildren(p) == { c \in 1..tree.n : tree.parent[c] = p /\ HasLine(c) }

Connector(i) == LineOf(i).lead[Len(LineOf(i).lead)]

C10_LastChildConnectorClaim ==
    rendered # None =>
        \A p \in 1..tree.n : HasLine(p) =>
            \A c \in EmittedChildren(p) :
                /\ LineOf(c).lead # <<>>
                /\ Connector(c) = (IF \A e \in EmittedChildren(p) : e <= c THEN Corner ELSE Tee)
                /\ \A g \in EmittedChildren(c) :
                      /\ Len(LineOf(g).lead) = Len(LineOf(c).lead) + 1
                      /\ LineOf(g).lead[Len(LineOf(c).lead)]
                           = (IF Connector(c) = Corner THEN Blank ELSE Bar)

(***************************************************************************)
(* Reading render's output back (SpecRenderText): the one node's line.     *)
(***************************************************************************)
Shown == Lines[1].contents
Trimmed == Strip(tree.summary[1])

\* the budget in force: the caller's when positive, the default otherwise
Budget ==
    IF args.char_display_limit # {} /\ The(args.char_display_limit) > 0
    THEN The(args.char_display_limit)
    ELSE 50

PositiveLimit == args.char_display_limit # {} /\ The(args.char_display_limit) > 0

IsPrefixEllipsisSuffix(shown, whole, np, ns) ==
    /\ np + ns < Len(whole)
    /\ shown = SubSeq(whole, 1, np) \o <<46, 46, 46>>
                 \o SubSeq(whole, Len(whole) - ns + 1, Len(whole))

(***************************************************************************)
(* C2, as claimed.  For every budget L > 0 and every summary whose trimmed *)
(* length exceeds L, the text shown has length exactly L and is a prefix   *)
(* of the summary, an ellipsis and a suffix of it; for length 80 and       *)
(* L = 50 it is 50 characters: a 23-character prefix, the ellipsis and a   *)
(* 24-character suffix.                                                    *)
(***************************************************************************)
C2_TruncationClaim ==
    (rendered # None /\ PositiveLimit /\ Len(Trimmed) > Budget) =>
        /\ Len(Shown) = Budget
        /\ \E np \in 0..Budget : \E ns \in 0..Budget :
              IsPrefixEllipsisSuffix(Shown, Trimmed, np, ns)
        /\ (Len(Trimmed) = 80 /\ Budget = 50) =>
              /\ Len(Shown) = 50
              /\ IsPrefixEllipsisSuffix(Shown, Trimmed, 23, 24)

\* the claim's own example alone
C2_ExampleClaim ==
    (rendered # None /\ PositiveLimit /\ Len(Trimmed) = 80 /\ Budget = 50) =>
        /\ Len(Shown) = 50
        /\ IsPrefixEllipsisSuffix(Shown, Trimmed, 23, 24)

(***************************************************************************)
(* C2, amended.  For every budget L > 0 and every summary whose trimmed    *)
(* length n exceeds L, with h = floor((L - 3) / 2):                        *)
(*   L >= 5: the text shown is the h-character prefix, the ellipsis and    *)
(*           the h-character suffix, 2h + 3 characters in all, which is L  *)
(*           for odd L and L - 1 for even L (n = 80, L = 50: 49            *)
(*           characters, 23 + 3 + 23);                                     *)
(*   L = 3, 4: it is the ellipsis followed by the whole trimmed summary    *)
(*           (n + 3 characters);                                           *)
(*   L = 1, 2: it is the summary without its last character, the ellipsis  *)
(*           and the summary without its first character (2n + 1).         *)
(***************************************************************************)
C2_TruncationAmended ==
    (rendered # None /\ PositiveLimit /\ Len(Trimmed) > Budget) =>
        LET L == Budget
            n == Len(Trimmed)
            h == (L - 3) \div 2
        IN  /\ L >= 5 =>
                /\ IsPrefixEllipsisSuffix(Shown, Trimmed, h, h)
                /\ Len(Shown) = 2 * h + 3
                /\ Len(Shown) = (IF L % 2 = 1 THEN L ELSE L - 1)
            /\ L \in {3, 4} =>
                /\ Shown = <<46, 46, 46>> \o Trimmed
                /\ Len(Shown) = n + 3
            /\ L \in {1, 2} =>
                /\ Shown = SubSeq(Trimmed, 1, n - 1) \o <<46, 46, 46>> \o SubSeq(Trimmed, 2, n)
                /\ Len(Shown) = 2 * n + 1
            /\ (n = 80 /\ L = 50) =>
                /\ Len(Shown) = 49
                /\ IsPrefixEllipsisSuffix(Shown, Trimmed, 23, 23)

C2_Witness ==
    /\ rendered # None
    /\ args.char_display_limit = {50}
    /\ Len(tree.summary[1]) = 82 /\ Len(Trimmed) = 80
    /\ Len(Shown) = 49

(***************************************************************************)
(* C3.  For every positive budget L, the small ones included, and every    *)
(* summary, the text render puts on a line is at most L long; a missing or *)
(* non-positive budget is replaced by 50 and the bound then holds for 50.  *)
(***************************************************************************)
C3_BudgetBoundClaim ==
    rendered # None => \A k \in 1..Len(Lines) : Len(Lines[k].contents) <= Budget

====
